---- MODULE Spec2Model ----
(***************************************************************************)
(* Model of functions/fixed_income.py: closed-form valuation formulas      *)
(* (simple, compound and continuous interest, perpetuities, annuities,     *)
(* effective rates).                                                       *)
(*                                                                         *)
(* Numbers.  The Python functions compute on floats.  The model computes   *)
(* the same expressions, operator by operator and in the same order, in    *)
(* exact arithmetic: a number is a finite sum  c1*e^x1 + ... + ck*e^xk     *)
(* with rational coefficients ci # 0 and distinct rational exponents xi    *)
(* (a plain rational q # 0 is q*e^0, zero is the empty sum).  Distinct     *)
(* sums denote distinct reals, so equality of numbers is equality of       *)
(* their representations.  Floating-point rounding, overflow and underflow *)
(* are outside the model: every equality proved here is an equality of     *)
(* the exact values, which the floats approximate.                         *)
(*                                                                         *)
(* Outcomes.  A Python expression either returns an object or raises; the  *)
(* arithmetic operators below propagate a raised exception from their      *)
(* operands, left operand first, as Python's evaluation order does.        *)
(***************************************************************************)
EXTENDS Integers, Sequences, FiniteSets, TLC

\* ------------------------------------------------------------------------
\* Bounds of the input sets
\* ------------------------------------------------------------------------
MaxAmount == 2
MaxRateHalves == 4
MaxTimeHalves == 2
MaxFreq == 2
MaxPayments == 3

\* ------------------------------------------------------------------------
\* Rationals: <<n, d>> with d > 0 and gcd(n, d) = 1
\* ------------------------------------------------------------------------
Abs(i) == IF i < 0 THEN -i ELSE i

RECURSIVE GCD(_, _)
GCD(a, b) == IF b = 0 THEN a ELSE GCD(b, a % b)

Norm(n, d) ==
    LET g == GCD(Abs(n), Abs(d))
        s == IF d < 0 THEN -1 ELSE 1
    IN  <<(s * n) \div g, (s * d) \div g>>

RZero == <<0, 1>>
ROne == <<1, 1>>
RInt(i) == <<i, 1>>
RAdd(a, b) == Norm(a[1] * b[2] + b[1] * a[2], a[2] * b[2])
RNeg(a) == <<-a[1], a[2]>>
RMul(a, b) == Norm(a[1] * b[1], a[2] * b[2])
RInv(a) == Norm(a[2], a[1])
RLess(a, b) == a[1] * b[2] < b[1] * a[2]
RIsInt(a) == a[2] = 1

RECURSIVE RPowNat(_, _)
RPowNat(a, k) == IF k = 0 THEN ROne ELSE RMul(a, RPowNat(a, k - 1))


\* ------------------------------------------------------------------------
\* Numbers: finite maps exponent -> coefficient, value = sum of c * e^x
\* ------------------------------------------------------------------------
NZero == [x \in {} |-> RZero]
NRat(q) == IF q = RZero THEN NZero ELSE [x \in {RZero} |-> q]
NOne == NRat(ROne)
NCoef(a, x) == IF x \in DOMAIN a THEN a[x] ELSE RZero
IsRational(a) == DOMAIN a \subseteq {RZero}
RatOf(a) == NCoef(a, RZero)

NAdd(a, b) ==
    IF a = NZero THEN b ELSE IF b = NZero THEN a ELSE
    LET D == (DOMAIN a) \cup (DOMAIN b)
        c(x) == RAdd(NCoef(a, x), NCoef(b, x))
    IN  [x \in {y \in D : c(y) # RZero} |-> c(x)]

NNeg(a) == [x \in DOMAIN a |-> RNeg(a[x])]

\* sum of a[x] * b[y] over the exponent pairs <<x, y>> of S
RECURSIVE SumProducts(_, _, _)
SumProducts(a, b, S) ==
    IF S = {} THEN RZero
    ELSE LET p == CHOOSE q \in S : TRUE
         IN  RAdd(RMul(a[p[1]], b[p[2]]), SumProducts(a, b, S \ {p}))

NMul(a, b) ==
    IF a = NZero \/ b = NZero THEN NZero
    ELSE IF IsRational(a) /\ IsRational(b) THEN NRat(RMul(a[RZero], b[RZero]))
    ELSE
    LET pairs == (DOMAIN a) \X (DOMAIN b)
        D == {RAdd(p[1], p[2]) : p \in pairs}
        c(z) == SumProducts(a, b, {p \in pairs : RAdd(p[1], p[2]) = z})
    IN  [z \in {y \in D : c(y) # RZero} |-> c(z)]

\* e^q for a rational q
NExp(q) == [x \in {q} |-> ROne]

\* ------------------------------------------------------------------------
\* Outcomes of evaluating a Python expression
\* ------------------------------------------------------------------------
Return(v) == [kind |-> "return", type |-> "float", val |-> v]
ReturnObject(cls, text) == [kind |-> "return", type |-> cls, msg |-> text]
Raise(cls) == [kind |-> "raise", exc |-> cls]
Returned(o) == o.kind = "return" /\ o.type = "float"
Lit(i) == Return(NRat(RInt(i)))

\* a + b, a - b, a * b, -a: never fail on numbers
PyAdd(a, b) ==
    IF a.kind = "raise" THEN a
    ELSE IF b.kind = "raise" THEN b
    ELSE Return(NAdd(a.val, b.val))
PyNeg(a) == IF a.kind = "raise" THEN a ELSE Return(NNeg(a.val))
PySub(a, b) ==
    IF a.kind = "raise" THEN a
    ELSE IF b.kind = "raise" THEN b
    ELSE Return(NAdd(a.val, NNeg(b.val)))
PyMul(a, b) ==
    IF a.kind = "raise" THEN a
    ELSE IF b.kind = "raise" THEN b
    ELSE Return(NMul(a.val, b.val))

\* a / b: ZeroDivisionError when b is zero.  The divisors of the library
\* are built from rates, times and frequencies, hence rational.
PyDiv(a, b) ==
    IF a.kind = "raise" THEN a
    ELSE IF b.kind = "raise" THEN b
    ELSE IF b.val = NZero THEN Raise("ZeroDivisionError")
    ELSE CASE IsRational(b.val) ->
              Return(NMul(a.val, NRat(RInv(RatOf(b.val)))))

\* a ** b for a rational base and an integer-valued exponent: 0 ** 0 is 1,
\* and 0 to a negative power raises ZeroDivisionError.
PyPow(a, b) ==
    IF a.kind = "raise" THEN a
    ELSE IF b.kind = "raise" THEN b
    ELSE CASE IsRational(a.val) /\ IsRational(b.val) /\ RIsInt(RatOf(b.val)) ->
              LET base == RatOf(a.val)
                  k == RatOf(b.val)[1]
              IN  IF k >= 0 THEN Return(NRat(RPowNat(base, k)))
                  ELSE IF base = RZero THEN Raise("ZeroDivisionError")
                  ELSE Return(NRat(RInv(RPowNat(base, -k))))

\* math.exp(a) for a rational argument
MathExp(a) ==
    IF a.kind = "raise" THEN a
    ELSE CASE IsRational(a.val) -> Return(NExp(RatOf(a.val)))

\* ------------------------------------------------------------------------
\* The library
\* ------------------------------------------------------------------------
simple_interest_fv(P, r, t) ==
    PyMul(Return(P), PyAdd(Lit(1), PyMul(Return(t), Return(r))))

\* bank discount in place of the true discount factor
simple_interest_pv_discount(V_t, r, t) ==
    PyMul(Return(V_t), PySub(Lit(1), PyMul(Return(t), Return(r))))

simple_interest_pv(V_t, r, t) ==
    PyMul(Return(V_t),
          PyDiv(Lit(1), PyAdd(Lit(1), PyMul(Return(t), Return(r)))))

\* a zero rate answered with the payment itself
perpetuity_pv_guarded(C, r) ==
    IF r = NZero THEN Return(C) ELSE PyDiv(Return(C), Return(r))

perpetuity_pv(C, r) == PyDiv(Return(C), Return(r))

compounded_interest_fv(P, r, t, m) ==
    PyMul(Return(P),
          PyPow(PyAdd(Lit(1), PyDiv(Return(r), Return(m))),
                PyMul(Return(t), Return(m))))

\* the annual rate applied to every period, not r / m
compounded_interest_pv_annual(V_t, r, t, m) ==
    PyMul(Return(V_t),
          PyDiv(Lit(1),
                PyPow(PyAdd(Lit(1), Return(r)), PyMul(Return(t), Return(m)))))

compounded_interest_pv(V_t, r, t, m) ==
    PyMul(Return(V_t),
          PyDiv(Lit(1),
                PyPow(PyAdd(Lit(1), PyDiv(Return(r), Return(m))),
                      PyMul(Return(t), Return(m)))))

\* one payment too many
_annuity_pv_factor_off_by_one(r, n) ==
    PyDiv(PySub(Lit(1),
                PyDiv(Lit(1),
                      PyPow(PyAdd(Lit(1), Return(r)),
                            PyAdd(Return(n), Lit(1))))),
          Return(r))

_annuity_pv_factor(r, n) ==
    PyDiv(PySub(Lit(1),
                PyDiv(Lit(1), PyPow(PyAdd(Lit(1), Return(r)), Return(n)))),
          Return(r))

\* payments at the start of each period (an annuity due)
annuity_pv_due(C, r, n) ==
    PyMul(PyMul(Return(C), _annuity_pv_factor(r, n)),
          PyAdd(Lit(1), Return(r)))

annuity_pv(C, r, n) == PyMul(Return(C), _annuity_pv_factor(r, n))

\* the factor multiplied in place of divided
annuity_payment_times(P, r, n) ==
    PyMul(Return(P), _annuity_pv_factor(r, n))

annuity_payment(P, r, n) == PyDiv(Return(P), _annuity_pv_factor(r, n))

\* the discount factor in place of the growth factor
continuous_compounding_fv_discount(P, r, t) ==
    PyMul(MathExp(PyMul(PyNeg(Return(t)), Return(r))), Return(P))

continuous_compounding_fv(P, r, t) ==
    PyMul(MathExp(PyMul(Return(t), Return(r))), Return(P))

continuous_compounding_pv(V_t, r, t) ==
    PyMul(Return(V_t), MathExp(PyMul(PyNeg(Return(t)), Return(r))))

\* the growth factor returned without taking 1 off
effective_rate_growth(r, m, method) ==
    IF method = "continuous" THEN PySub(MathExp(Return(r)), Lit(1))
    ELSE IF method = "periodic" THEN
        PyPow(PyAdd(Lit(1), PyDiv(Return(r), Return(m))), Return(m))
    ELSE ReturnObject("ValueError", "The compounding method is not valid")

effective_rate(r, m, method) ==
    IF method = "continuous" THEN PySub(MathExp(Return(r)), Lit(1))
    ELSE IF method = "periodic" THEN
        PySub(PyPow(PyAdd(Lit(1), PyDiv(Return(r), Return(m))), Return(m)),
              Lit(1))
    ELSE ReturnObject("ValueError", "The compounding method is not valid")

\* the defaults of effective_rate's signature
DefaultM == NRat(RInt(1))
DefaultMethod == "continuous"

\* ------------------------------------------------------------------------
\* Callers: the arguments a caller holds, and the calls it makes
\* ------------------------------------------------------------------------
VARIABLES env, cur, prev
vars == <<env, cur, prev>>

Half(k) == NRat(Norm(k, 2))
Amounts == {NRat(RInt(i)) : i \in -MaxAmount..MaxAmount}
Rates == {Half(k) : k \in -MaxRateHalves..MaxRateHalves}
Times == {Half(k) : k \in -MaxTimeHalves..MaxTimeHalves}
Freqs == {NRat(RInt(i)) : i \in -MaxFreq..MaxFreq}
Payments == {NRat(RInt(i)) : i \in 0..MaxPayments}
Methods == {"continuous", "periodic", "bogus", "simple"}

NoCall == [fn |-> "none"]

\* A behaviour is the evaluation of one expression by a caller holding the
\* arguments env: a call f(...), or a call g(f(...), ...) whose amount
\* argument (P, V_t, C) is the number the first call returned.
Sources ==
    IF cur.fn = "none" THEN {"input"}
    ELSE IF prev.fn = "none" /\ Returned(cur.out) THEN {"result"}
    ELSE {}
AmountFrom(src) == IF src = "input" THEN env.amount ELSE cur.out.val

Record(fn, args, out, src) ==
    /\ cur' = [fn |-> fn, args |-> args, out |-> out]
    /\ prev' = IF src = "result" THEN cur ELSE NoCall
    /\ UNCHANGED env

\* The powers the model computes exactly: t * m is an integer.
WholePeriods(t, m) == RIsInt(RatOf(NMul(t, m)))

Call_simple_interest_fv ==
    \E src \in Sources :
        LET P == AmountFrom(src)
        IN  Record("simple_interest_fv", [P |-> P, r |-> env.r, t |-> env.t],
                   simple_interest_fv(P, env.r, env.t), src)

Call_simple_interest_pv ==
    \E src \in Sources :
        LET V_t == AmountFrom(src)
        IN  Record("simple_interest_pv", [V_t |-> V_t, r |-> env.r, t |-> env.t],
                   simple_interest_pv(V_t, env.r, env.t), src)

Call_perpetuity_pv ==
    \E src \in Sources :
        LET C == AmountFrom(src)
        IN  Record("perpetuity_pv", [C |-> C, r |-> env.r],
                   perpetuity_pv(C, env.r), src)

Call_compounded_interest_fv ==
    \E src \in Sources :
        LET P == AmountFrom(src)
        IN  /\ WholePeriods(env.t, env.m)
            /\ Record("compounded_interest_fv",
                      [P |-> P, r |-> env.r, t |-> env.t, m |-> env.m],
                      compounded_interest_fv(P, env.r, env.t, env.m), src)

Call_compounded_interest_pv ==
    \E src \in Sources :
        LET V_t == AmountFrom(src)
        IN  /\ WholePeriods(env.t, env.m)
            /\ Record("compounded_interest_pv",
                      [V_t |-> V_t, r |-> env.r, t |-> env.t, m |-> env.m],
                      compounded_interest_pv(V_t, env.r, env.t, env.m), src)

Call_annuity_pv_factor ==
    /\ cur.fn = "none"
    /\ Record("_annuity_pv_factor", [r |-> env.r, n |-> env.n],
              _annuity_pv_factor(env.r, env.n), "input")

Call_annuity_pv ==
    \E src \in Sources :
        LET C == AmountFrom(src)
        IN  Record("annuity_pv", [C |-> C, r |-> env.r, n |-> env.n],
                   annuity_pv(C, env.r, env.n), src)

Call_annuity_payment ==
    \E src \in Sources :
        LET P == AmountFrom(src)
        IN  Record("annuity_payment", [P |-> P, r |-> env.r, n |-> env.n],
                   annuity_payment(P, env.r, env.n), src)

Call_continuous_compounding_fv ==
    \E src \in Sources :
        LET P == AmountFrom(src)
        IN  Record("continuous_compounding_fv",
                   [P |-> P, r |-> env.r, t |-> env.t],
                   continuous_compounding_fv(P, env.r, env.t), src)

Call_continuous_compounding_pv ==
    \E src \in Sources :
        LET V_t == AmountFrom(src)
        IN  Record("continuous_compounding_pv",
                   [V_t |-> V_t, r |-> env.r, t |-> env.t],
                   continuous_compounding_pv(V_t, env.r, env.t), src)

\* effective_rate(r), effective_rate(r, m), effective_rate(r, method=...),
\* effective_rate(r, m, method): an argument left out takes its default.
Call_effective_rate ==
    \E with_m, with_method \in BOOLEAN :
        /\ cur.fn = "none"
        /\ LET m == IF with_m THEN env.m ELSE DefaultM
               method == IF with_method THEN env.method ELSE DefaultMethod
               args == CASE with_m /\ with_method ->
                            [r |-> env.r, m |-> env.m, method |-> env.method]
                         [] with_m /\ ~with_method ->
                            [r |-> env.r, m |-> env.m]
                         [] ~with_m /\ with_method ->
                            [r |-> env.r, method |-> env.method]
                         [] ~with_m /\ ~with_method -> [r |-> env.r]
           IN  Record("effective_rate", args,
                      effective_rate(env.r, m, method), "input")

Envs(A, R, T, M, N, K) ==
    [amount : A, r : R, t : T, m : M, n : N, method : K]

Start(E) == env \in E /\ cur = NoCall /\ prev = NoCall

Init == Start(Envs(Amounts, Rates, Times, Freqs, Payments, Methods))

Next ==
    \/ Call_simple_interest_fv
    \/ Call_simple_interest_pv
    \/ Call_perpetuity_pv
    \/ Call_compounded_interest_fv
    \/ Call_compounded_interest_pv
    \/ Call_annuity_pv_factor
    \/ Call_annuity_pv
    \/ Call_annuity_payment
    \/ Call_continuous_compounding_fv
    \/ Call_continuous_compounding_pv
    \/ Call_effective_rate

Spec == Init /\ [][Next]_vars

\* The same callers, restricted to one group of functions and to the
\* arguments that group reads.
InitSimple ==
    Start(Envs(Amounts, Rates, Times, {DefaultM}, {NOne}, {DefaultMethod}))
NextSimple == Call_simple_interest_fv \/ Call_simple_interest_pv
SpecSimple == InitSimple /\ [][NextSimple]_vars

InitCompound ==
    Start(Envs(Amounts, Rates, Times, Freqs, {NOne}, {DefaultMethod}))
NextCompound == Call_compounded_interest_fv \/ Call_compounded_interest_pv
SpecCompound == InitCompound /\ [][NextCompound]_vars

InitAnnuity ==
    Start(Envs(Amounts, Rates, {NOne}, {DefaultM}, Payments, {DefaultMethod}))
NextAnnuity ==
    Call_annuity_pv_factor \/ Call_annuity_pv \/ Call_annuity_payment
SpecAnnuity == InitAnnuity /\ [][NextAnnuity]_vars

InitContinuous ==
    Start(Envs(Amounts, Rates, Times, {DefaultM}, {NOne}, {DefaultMethod}))
NextContinuous ==
    Call_continuous_compounding_fv \/ Call_continuous_compounding_pv
SpecContinuous == InitContinuous /\ [][NextContinuous]_vars

InitEffective ==
    Start(Envs({NOne}, Rates, {NOne}, Freqs, {NOne}, Methods))
NextEffective == Call_effective_rate
SpecEffective == InitEffective /\ [][NextEffective]_vars

InitDenominators ==
    Start(Envs(Amounts, Rates, Times, Freqs, Payments, {DefaultMethod}))
NextDenominators ==
    \/ Call_perpetuity_pv
    \/ Call_compounded_interest_fv
    \/ Call_compounded_interest_pv
    \/ Call_annuity_pv_factor
    \/ Call_annuity_pv
    \/ Call_annuity_payment
SpecDenominators == InitDenominators /\ [][NextDenominators]_vars

\* ------------------------------------------------------------------------
\* Properties
\* ------------------------------------------------------------------------
\* The sign of the real number a, where the representation decides it:
\* all coefficients of one sign, or c*e^x - c*e^y, which has the sign of the
\* coefficient of the larger exponent.
NSign(a) ==
    LET D == DOMAIN a
    IN  CASE D = {} -> 0
          [] D # {} /\ (\A x \in D : RLess(RZero, a[x])) -> 1
          [] D # {} /\ (\A x \in D : RLess(a[x], RZero)) -> -1
          [] /\ Cardinality(D) = 2
             /\ \E x, y \in D : x # y /\ a[y] = RNeg(a[x]) ->
                LET top == CHOOSE x \in D : \A y \in D : ~RLess(x, y)
                IN  IF RLess(RZero, a[top]) THEN 1 ELSE -1
NLess(a, b) == NSign(NAdd(b, NNeg(a))) = 1


Rate == RatOf(env.r)
Time == RatOf(env.t)
Freq == RatOf(env.m)
Count == RatOf(env.n)[1]
First(fn) == cur.fn = fn /\ prev.fn = "none"
Composed(f, g) == prev.fn = f /\ cur.fn = g
ZeroDivision == Raise("ZeroDivisionError")

\* the method and the frequency an effective_rate call runs with
MethodOf(c) == IF "method" \in DOMAIN c.args THEN c.args.method ELSE "continuous"
ValidMethods == {"continuous", "periodic"}

\* C1: effective_rate called with a method other than "continuous" and
\* "periodic" ends in a raised error, never in a normal return.
C1_InvalidMethodRaises ==
    (cur.fn = "effective_rate" /\ MethodOf(cur) \notin ValidMethods)
        => cur.out.kind = "raise"

\* C2 as stated: for every r # 0 and n >= 1, annuity_pv(C, r, n) returns
\* and annuity_payment of its result, with the same r and n, returns C.
C2_RoundTripEveryRate ==
    /\ (First("annuity_pv") /\ Rate # RZero /\ Count >= 1)
          => Returned(cur.out)
    /\ (Composed("annuity_pv", "annuity_payment") /\ Rate # RZero /\ Count >= 1)
          => (Returned(cur.out) /\ cur.out.val = prev.args.C)

\* C2 amended: the round trip returns C when r # 0, r # -1 and
\* (1 + r)^n # 1, that is unless r = -2 with n even; at r = -1 annuity_pv
\* raises ZeroDivisionError, and at r = -2 with n even annuity_pv returns 0
\* and annuity_payment raises ZeroDivisionError.
FactorIsOne == RPowNat(RAdd(ROne, Rate), Count) = ROne
C2_RoundTrip ==
    /\ (First("annuity_pv") /\ Count >= 1 /\ Rate \notin {RZero, RInt(-1)})
          => Returned(cur.out)
    /\ (First("annuity_pv") /\ Count >= 1 /\ Rate = RInt(-1))
          => cur.out = ZeroDivision
    /\ (Composed("annuity_pv", "annuity_payment") /\ Count >= 1 /\ Rate # RZero)
          => IF FactorIsOne
             THEN /\ Rate = RInt(-2) /\ Count % 2 = 0
                  /\ prev.out = Return(NZero)
                  /\ cur.out = ZeroDivision
             ELSE Returned(cur.out) /\ cur.out.val = prev.args.C
C2_Witness ==
    /\ Composed("annuity_pv", "annuity_payment")
    /\ Rate = RInt(-2) /\ Count = 3
    /\ prev.args.C = NRat(RInt(2))
    /\ prev.out.val # prev.args.C
    /\ cur.out = Return(NRat(RInt(2)))

\* C3: for 1 + t*r # 0, simple_interest_pv of the result of
\* simple_interest_fv(P, r, t), with the same r and t, returns P.
C3_SimpleRoundTrip ==
    /\ First("simple_interest_fv") => Returned(cur.out)
    /\ (/\ Composed("simple_interest_fv", "simple_interest_pv")
        /\ RAdd(ROne, RMul(Time, Rate)) # RZero)
          => (Returned(cur.out) /\ cur.out.val = prev.args.P)
C3_Witness ==
    /\ Composed("simple_interest_fv", "simple_interest_pv")
    /\ RMul(Time, Rate) = <<-1, 2>>
    /\ prev.args.P = NRat(RInt(2))
    /\ prev.out = Return(NOne)
    /\ cur.out = Return(NRat(RInt(2)))

\* C4: for r # 0, m # 0 and 1 + r/m > 0, compounded_interest_pv of the
\* result of compounded_interest_fv(P, r, t, m), with the same r, t and m,
\* returns P.
PositiveBase ==
    /\ Rate # RZero
    /\ Freq # RZero
    /\ RLess(RZero, RAdd(ROne, RMul(Rate, RInv(Freq))))
ZeroDenominator ==
    \/ cur.fn = "perpetuity_pv" /\ cur.args.r = NZero
    \/ /\ cur.fn \in {"compounded_interest_fv", "compounded_interest_pv"}
       /\ cur.args.m = NZero
    \/ /\ cur.fn \in {"_annuity_pv_factor", "annuity_pv", "annuity_payment"}
       /\ cur.args.r = NZero
C5_ZeroDenominatorRaises == ZeroDenominator => cur.out = ZeroDivision
C5_Witness ==
    /\ Composed("compounded_interest_fv", "perpetuity_pv")
    /\ ZeroDenominator
    /\ cur.args.C # NZero
    /\ cur.out = ZeroDivision

\* C6: for every r # 0, r = -1 included, _annuity_pv_factor(r, 0) returns 0
\* and annuity_pv(C, r, 0) returns 0.
C6_NoPaymentsIsZero ==
    (/\ cur.fn \in {"_annuity_pv_factor", "annuity_pv"}
     /\ cur.args.r # NZero
     /\ cur.args.n = NZero)
        => cur.out = Return(NZero)
C6_Witness ==
    /\ cur.fn = "annuity_pv"
    /\ cur.args.r = NRat(RInt(-1))
    /\ cur.args.n = NZero
    /\ cur.args.C = NRat(RInt(2))
    /\ cur.out = Return(NZero)

\* C7: effective_rate without a method, or with method "continuous",
\* returns e^r - 1 whatever m is; with method "periodic" and an integer
\* m >= 1 it returns (1 + r/m)^m - 1, and without m it returns r.
ExpMinusOne(q) == NAdd(NExp(q), NNeg(NOne))
PeriodicRate(q, k) ==
    NRat(RAdd(RPowNat(RAdd(ROne, RMul(q, <<1, k>>)), k), RNeg(ROne)))
C7_EffectiveRateDispatch ==
    cur.fn = "effective_rate" =>
        /\ "method" \notin DOMAIN cur.args
              => cur.out = Return(ExpMinusOne(RatOf(cur.args.r)))
        /\ ("method" \in DOMAIN cur.args /\ cur.args.method = "continuous")
              => cur.out = Return(ExpMinusOne(RatOf(cur.args.r)))
        /\ ("method" \in DOMAIN cur.args /\ cur.args.method = "periodic")
              => IF "m" \in DOMAIN cur.args
                 THEN RatOf(cur.args.m)[1] >= 1
                        => cur.out = Return(PeriodicRate(RatOf(cur.args.r),
                                                         RatOf(cur.args.m)[1]))
                 ELSE cur.out = Return(cur.args.r)
C7_Witness ==
    /\ cur.fn = "effective_rate"
    /\ DOMAIN cur.args = {"r", "m", "method"}
    /\ cur.args.method = "periodic"
    /\ cur.args.m = NRat(RInt(2))
    /\ cur.args.r = NOne
    /\ cur.out = Return(NRat(<<5, 4>>))

\* C8 as stated: for every P (V_t), continuous_compounding_fv is strictly
\* increasing and continuous_compounding_pv strictly decreasing in t*r.
LargerProduct(r2, t2) == RLess(RMul(Time, Rate), RMul(RatOf(t2), RatOf(r2)))
GrowsTo(r2, t2) ==
    NLess(cur.out.val, continuous_compounding_fv(cur.args.P, r2, t2).val)
ShrinksTo(r2, t2) ==
    NLess(continuous_compounding_pv(cur.args.V_t, r2, t2).val, cur.out.val)
C8_MonotoneEveryAmount ==
    /\ cur.fn = "continuous_compounding_fv" =>
          \A r2 \in Rates, t2 \in Times : LargerProduct(r2, t2) => GrowsTo(r2, t2)
    /\ cur.fn = "continuous_compounding_pv" =>
          \A r2 \in Rates, t2 \in Times : LargerProduct(r2, t2) => ShrinksTo(r2, t2)

\* C8 amended: for every P > 0 continuous_compounding_fv is strictly
\* increasing in t*r, and for every V_t > 0 continuous_compounding_pv is
\* strictly decreasing in t*r.
C8_MonotonePositiveAmount ==
    /\ (cur.fn = "continuous_compounding_fv" /\ NSign(cur.args.P) = 1) =>
          \A r2 \in Rates, t2 \in Times : LargerProduct(r2, t2) => GrowsTo(r2, t2)
    /\ (cur.fn = "continuous_compounding_pv" /\ NSign(cur.args.V_t) = 1) =>
          \A r2 \in Rates, t2 \in Times : LargerProduct(r2, t2) => ShrinksTo(r2, t2)
C8_Witness ==
    /\ cur.fn = "continuous_compounding_fv"
    /\ cur.args.P = NRat(RInt(2))
    /\ RMul(Time, Rate) = <<-1, 2>>
    /\ cur.out.val = NMul(NRat(RInt(2)), NExp(<<-1, 2>>))
    /\ LargerProduct(NOne, NOne) /\ GrowsTo(NOne, NOne)

\* C9 (every function is a pure mapping) is not stated as a formula: the
\* functions above are operators of their arguments alone, and the source
\* holds no module-level state an action could read or write.

\* C10: for r # 0, 1 + r # 0 and n >= 0, annuity_pv(C, r, n) returns the
\* sum over k = 1..n of C / (1 + r)^k.
RECURSIVE DiscountedPayments(_, _)
DiscountedPayments(q, k) ==
    IF k = 0 THEN RZero
    ELSE RAdd(DiscountedPayments(q, k - 1), RInv(RPowNat(RAdd(ROne, q), k)))
====
